---- MODULE Spec2Model ----
(***************************************************************************)
(* A model of ecs::Engine (src/fastecs.hh, lines 52-391): the entity       *)
(* registry, the per-component-type sorted vectors (one active and one     *)
(* inactive vector per type), the name table and the debugging-info table. *)
(* Every public operation of the engine is one action; an operation that   *)
(* throws leaves the store as it was and records the exception in `call`.  *)
(***************************************************************************)
EXTENDS Integers, Sequences, FiniteSets, TLC

\* ------------------------------------------------------------- bounds

\* Number of add_entity calls explored (caps _next_entity_id).
MaxEntities == 3

\* Number of calls made on the engine in one explored run.
MaxCalls == 5

\* The component types of the engine instance (Engine<..., A, B>).
Components == {"A", "B"}

\* Component values, entity names and debugging texts the calls draw from.
Values == {42, 43}
Names == {"test"}
Texts == {"debugging_info"}

EntityIds == 0..(MaxEntities - 1)

\* ------------------------------------------------------------- values

\* ecs::Entity wraps a size_t.
Entity(value) == <<"Entity", value>>

\* The std::string alternative of EntityOrName.
Name(s) == <<"string", s>>

\* using EntityOrName = std::variant<Entity, std::string>
EntityOrName == {Entity(i) : i \in EntityIds} \cup {Name(s) : s \in Names}

\* std::optional<std::string>: <<>> is the empty optional.
OptionalName == {<<>>} \cup {<<s>> : s \in Names}

\* Outcomes of a call: a returned value, or the exception thrown.
Ok(v) == <<"ok", v>>
ECSError == <<"ECSError">>
OutOfRange == <<"out_of_range">>
Throws(r) == r[1] # "ok"

\* --------------------------------------------------------------- state

VARIABLES
    _entities,             \* std::map<Entity, bool>: id -> active flag
    _components_active,    \* per component type, a vector of (Entity, C) pairs
    _components_inactive,  \* the same, selected when the entity is inactive
    _named_entities,       \* std::map<std::string, Entity>
    _debugging_info,       \* std::map<Entity, std::string>
    _next_entity_id,       \* size_t
    call,                  \* the last call made: operation, arguments, outcome
    issued,                \* history: the ids add_entity returned, in call order
    removed,               \* history: the ids remove_entity removed
    ncalls                 \* history: number of calls made so far

store == <<_entities, _components_active, _components_inactive,
           _named_entities, _debugging_info, _next_entity_id>>

history == <<issued, removed>>

vars == <<_entities, _components_active, _components_inactive,
          _named_entities, _debugging_info, _next_entity_id,
          call, issued, removed, ncalls>>

\* The state of ECS::Engine, the earlier implementation kept in fastecs.hh
\* (lines 393-1250), whose calls are recorded in `call` as well.
VARIABLES
    _rd,        \* RawData: [_ary |-> the bytes, _entities |-> the offsets]
    undefined,  \* a call ran into undefined behaviour or did not return
    owns,       \* history: id -> the component types added and not removed
    _events     \* std::vector<Event>, the queue of ECS::Engine

old == <<_rd, undefined, owns>>
queue == <<_events>>

\* The state of the systems and events part of ecs::Engine (declared at
\* fastecs.hh 173-197): the scheduler and the event queue.
VARIABLES
    threading,      \* "single" or "multi", fixed at construction
    system_index,   \* system name -> index, in first-use order
    _event_queue,   \* the queued events, each with its producer's index
    queue_lock,     \* "", or the body that holds the lock of the queue
    workers,        \* the bodies spawned since the last join, in spawn order
    bodies,         \* the system bodies that exist, by system name
    main,           \* what the controlling thread is doing
    tick,           \* number of joins that returned
    ran             \* the systems run since the last join

sched == <<threading, system_index, _event_queue, queue_lock, workers,
           bodies, main, tick, ran>>

\* Everything but the state of ecs::Engine and the call record.
rest == <<old, queue, sched>>

\* A default-constructed ECS::Engine: RawData holds no byte and no entity.
OldInit ==
    /\ _rd = [_ary |-> <<>>, _entities |-> <<>>]
    /\ undefined = FALSE
    /\ owns = <<>>

\* The queue of a default-constructed ECS::Engine.
QueueInit == _events = <<>>

\* The scheduler and the event queue of a new engine, in either mode.
SchedInit ==
    /\ threading \in {"single", "multi"}
    /\ system_index = <<>>
    /\ _event_queue = <<>>
    /\ queue_lock = ""
    /\ workers = <<>>
    /\ bodies = <<>>
    /\ main = [pc |-> "host", body |-> ""]
    /\ tick = 0
    /\ ran = {}

\* The same with the default mode.
SchedIdle == SchedInit /\ threading = "single"

RestInit == OldInit /\ QueueInit /\ SchedIdle

\* ----------------------------------------------------- std containers

\* std::map::insert: a key already bound keeps its value.
MapInsert(m, k, v) ==
    [x \in DOMAIN m \cup {k} |-> IF x \in DOMAIN m THEN m[x] ELSE v]

\* std::map::operator[] / insert_or_assign: bind key k to v.
MapPut(m, k, v) == [x \in DOMAIN m \cup {k} |-> IF x = k THEN v ELSE m[x]]

\* An erase that leaves the map as it is (the erase left out).
MapEraseNothing(m, k) == m

\* std::map::erase(key).
MapErase(m, k) == [x \in DOMAIN m \ {k} |-> m[x]]

\* The name table left as it is (the loop left out).
EraseNoName(m, id) == m

\* The loop of remove_entity over _named_entities: every name bound to id
\* is erased.
EraseNamesOf(m, id) == [n \in {k \in DOMAIN m : m[k] # id} |-> m[n]]

\* An assignment through the iterator, `*it = x`, in place of the insert
\* (a push_back at the end).
VecAssign(vec, it, x) ==
    IF it <= Len(vec) THEN [vec EXCEPT ![it] = x] ELSE Append(vec, x)

\* std::vector::insert(it, x): x goes before position it (1..Len+1).
VecInsert(vec, it, x) ==
    SubSeq(vec, 1, it - 1) \o <<x>> \o SubSeq(vec, it, Len(vec))

\* std::vector::erase(it, end()): everything from it on goes.
VecEraseToEnd(vec, it) == SubSeq(vec, 1, it - 1)

\* std::vector::erase(it).
VecErase(vec, it) == SubSeq(vec, 1, it - 1) \o SubSeq(vec, it + 1, Len(vec))

\* The vector left as it is (the erase-remove left out).
RemoveNothing(t, id) == t

\* t.erase(std::remove_if(t.begin(), t.end(), p.first == id), t.end()):
\* the pairs keyed by id go, the others keep their relative order.
RECURSIVE RemoveIf(_, _)
RemoveIf(t, id) ==
    IF t = <<>> THEN <<>>
    ELSE IF Head(t).first = id THEN RemoveIf(Tail(t), id)
    ELSE <<Head(t)>> \o RemoveIf(Tail(t), id)

\* end(vec) in place of the search: the pair is pushed at the back.
vec_end(vec, id) == Len(vec) + 1

\* A mix-up of lower_bound with upper_bound (p.first <= e).
RECURSIVE UpperBoundLoop(_, _, _, _)
UpperBoundLoop(vec, first, len, id) ==
    IF len <= 0 THEN first
    ELSE LET half == len \div 2
             middle == first + half
         IN  IF vec[middle].first <= id
             THEN UpperBoundLoop(vec, middle + 1, len - half - 1, id)
             ELSE UpperBoundLoop(vec, first, half, id)

upper_bound(vec, id) == UpperBoundLoop(vec, 1, Len(vec), id)

\* std::lower_bound(begin(vec), end(vec), id, p.first < e): the binary
\* search of the standard library, positions counted from 1, Len+1 for end.
RECURSIVE LowerBoundLoop(_, _, _, _)
LowerBoundLoop(vec, first, len, id) ==
    IF len <= 0 THEN first
    ELSE LET half == len \div 2
             middle == first + half
         IN  IF vec[middle].first < id
             THEN LowerBoundLoop(vec, middle + 1, len - half - 1, id)
             ELSE LowerBoundLoop(vec, first, half, id)

lower_bound(vec, id) == LowerBoundLoop(vec, 1, Len(vec), id)

\* ------------------------------------------------------ private helpers

\* entity() without the registry lookup for ids.
entity_unchecked(ent) ==
    IF ent[1] = "string"
    THEN IF ent[2] \in DOMAIN _named_entities
         THEN Ok(_named_entities[ent[2]])
         ELSE ECSError
    ELSE Ok(ent[2])

\* Engine::entity: resolve a name or an id to a registered entity.
entity(ent) ==
    IF ent[1] = "string"
    THEN IF ent[2] \in DOMAIN _named_entities
         THEN Ok(_named_entities[ent[2]])
         ELSE ECSError
    ELSE IF ent[2] \notin DOMAIN _entities
         THEN ECSError
         ELSE Ok(ent[2])

\* Engine::comp_vec<C>(active).
comp_vec(C, active) ==
    IF active THEN _components_active[C] ELSE _components_inactive[C]

\* Found() without the comparison of the key.
FoundNotEnd(vec, it, id) == it <= Len(vec)

\* `it != vec.end() && it->first == id`
Found(vec, it, id) == it <= Len(vec) /\ vec[it].first = id

\* The search of component_ptr that answers with the front of the vector.
FindInVecFront(vec, id) ==
    LET it == lower_bound(vec, id)
    IN  IF Found(vec, it, id) THEN 1 ELSE 0

\* The search of component_ptr: the position of id's pair, 0 for nullptr.
FindInVec(vec, id) ==
    LET it == lower_bound(vec, id)
    IN  IF Found(vec, it, id) THEN it ELSE 0

\* add_component that assigns over an existing pair instead of throwing.
AddToVecOverwrite(vec, id, c) ==
    LET it == lower_bound(vec, id)
    IN  IF Found(vec, it, id)
        THEN Ok([vec EXCEPT ![it] = [first |-> id, second |-> c]])
        ELSE Ok(VecInsert(vec, it, [first |-> id, second |-> c]))

\* The body of add_component on the selected vector: the vector after the
\* insertion, or the exception.
AddToVec(vec, id, c) ==
    LET it == lower_bound(vec, id)
    IN  IF Found(vec, it, id)
        THEN ECSError
        ELSE Ok(VecInsert(vec, it, [first |-> id, second |-> c]))

\* remove_component that returns quietly when there is no pair.
RemoveFromVecSilent(vec, id) ==
    LET it == lower_bound(vec, id)
    IN  IF Found(vec, it, id) THEN Ok(VecErase(vec, it)) ELSE Ok(vec)

\* The body of remove_component on the selected vector.
RemoveFromVec(vec, id) ==
    LET it == lower_bound(vec, id)
    IN  IF Found(vec, it, id) THEN Ok(VecErase(vec, it)) ELSE ECSError

\* ++_next_entity_id in place of _next_entity_id++.
PreIncrement(n) == [value |-> n + 1, next |-> n + 1]

\* `_next_entity_id++`: the value of the expression and the new counter.
PostIncrement(n) == [value |-> n, next |-> n + 1]

\* ----------------------------------------------------------- read calls

\* Engine::component_ptr<C>: Ok(<<>>) is nullptr, Ok(<<v>>) points at v.
component_ptr(C, ent) ==
    LET id == entity(ent) IN
    IF Throws(id) THEN id
    ELSE IF id[2] \notin DOMAIN _entities THEN OutOfRange
    ELSE LET vec == comp_vec(C, _entities[id[2]])
             it == FindInVec(vec, id[2])
         IN  IF it # 0 THEN Ok(<<vec[it].second>>) ELSE Ok(<<>>)

\* Engine::has_component<C>.
has_component(C, ent) ==
    LET c == component_ptr(C, ent) IN
    IF Throws(c) THEN c ELSE Ok(c[2] # <<>>)

\* Engine::component<C>.
component(C, ent) ==
    LET c == component_ptr(C, ent) IN
    IF Throws(c) THEN c
    ELSE IF c[2] = <<>> THEN ECSError
    ELSE Ok(c[2][1])

\* is_entity_active reading _entities.count(id) in place of _entities.at(id).
is_entity_registered(ent) ==
    LET id == entity(ent) IN
    IF Throws(id) THEN id
    ELSE IF id[2] \notin DOMAIN _entities THEN OutOfRange
    ELSE Ok(TRUE)

\* Engine::is_entity_active.
is_entity_active(ent) ==
    LET id == entity(ent) IN
    IF Throws(id) THEN id
    ELSE IF id[2] \notin DOMAIN _entities THEN OutOfRange
    ELSE Ok(_entities[id[2]])

\* entity_debugging_info reading _debugging_info.begin() in place of
\* _debugging_info.find(entity(ent)).
entity_debugging_info_begin(ent) ==
    LET id == entity(ent) IN
    IF Throws(id) THEN id
    ELSE IF DOMAIN _debugging_info = {} THEN Ok(<<>>)
    ELSE LET first == CHOOSE k \in DOMAIN _debugging_info :
                          \A x \in DOMAIN _debugging_info : k <= x
         IN  Ok(<<_debugging_info[first]>>)

\* Engine::entity_debugging_info: Ok(<<>>) is the empty optional.
entity_debugging_info(ent) ==
    LET id == entity(ent) IN
    IF Throws(id) THEN id
    ELSE IF id[2] \notin DOMAIN _debugging_info THEN Ok(<<>>)
    ELSE Ok(<<_debugging_info[id[2]]>>)

\* The count the commented-out body of number_of_entities computes: the
\* size of the largest component vector.
number_of_entities_by_vectors ==
    LET counts == {Len(_components_active[C]) : C \in Components}
    IN  CHOOSE n \in counts : \A k \in counts : k <= n

\* Engine::number_of_entities.
number_of_entities == Cardinality(DOMAIN _entities)

\* ---------------------------------------------------------------- Init

\* A default-constructed Engine.
Init ==
    /\ _entities = <<>>
    /\ _components_active = [c \in Components |-> <<>>]
    /\ _components_inactive = [c \in Components |-> <<>>]
    /\ _named_entities = <<>>
    /\ _debugging_info = <<>>
    /\ _next_entity_id = 0
    /\ call = [op |-> "Engine", args |-> <<>>, res |-> Ok(<<>>)]
    /\ issued = <<>>
    /\ removed = {}
    /\ ncalls = 0

\* A call that returned: its record.
Return(op, args, value) ==
    call' = [op |-> op, args |-> args, res |-> Ok(value)]

\* A call that threw: nothing of the store changes.
Raise(op, args, exc) ==
    /\ call' = [op |-> op, args |-> args, res |-> exc]
    /\ UNCHANGED <<store, history>>

\* Writes vec back as comp_vec<C>(active).
SetCompVec(C, active, vec) ==
    IF active
    THEN /\ _components_active' = [_components_active EXCEPT ![C] = vec]
         /\ UNCHANGED _components_inactive
    ELSE /\ _components_inactive' = [_components_inactive EXCEPT ![C] = vec]
         /\ UNCHANGED _components_active

\* ---------------------------------------------------------- operations

\* add_entity binding the name after the increment, to Entity{_next_entity_id}.
add_entity_name_next(name) ==
    /\ _next_entity_id < MaxEntities
    /\ LET inc == PostIncrement(_next_entity_id)
           ent == inc.value
       IN  /\ _next_entity_id' = inc.next
           /\ _entities' = MapPut(_entities, ent, TRUE)
           /\ _named_entities' =
                  IF name # <<>>
                  THEN MapPut(_named_entities, name[1], inc.next)
                  ELSE _named_entities
           /\ Return("add_entity", <<name>>, ent)
           /\ issued' = Append(issued, ent)
    /\ UNCHANGED <<_components_active, _components_inactive,
                   _debugging_info, removed>>

\* Engine::add_entity.
add_entity(name) ==
    /\ _next_entity_id < MaxEntities
    /\ LET inc == PostIncrement(_next_entity_id)
           ent == inc.value
       IN  /\ _next_entity_id' = inc.next
           /\ _entities' = MapPut(_entities, ent, TRUE)
           /\ _named_entities' =
                  IF name # <<>> THEN MapPut(_named_entities, name[1], ent)
                  ELSE _named_entities
           /\ Return("add_entity", <<name>>, ent)
           /\ issued' = Append(issued, ent)
    /\ UNCHANGED <<_components_active, _components_inactive,
                   _debugging_info, removed>>

\* Engine::set_entity_active.
set_entity_active(ent, active) ==
    LET id == entity(ent)
        args == <<ent, active>>
    IN  IF Throws(id) THEN Raise("set_entity_active", args, id)
        ELSE IF id[2] \notin DOMAIN _entities
        THEN Raise("set_entity_active", args, OutOfRange)
        ELSE /\ _entities' = [_entities EXCEPT ![id[2]] = active]
             /\ Return("set_entity_active", args, <<>>)
             /\ UNCHANGED <<_components_active, _components_inactive,
                            _named_entities, _debugging_info,
                            _next_entity_id, history>>

\* Engine::set_entity_debugging_info.
set_entity_debugging_info(ent, text) ==
    LET id == entity(ent)
        args == <<ent, text>>
    IN  IF Throws(id) THEN Raise("set_entity_debugging_info", args, id)
        ELSE /\ _debugging_info' = MapPut(_debugging_info, id[2], text)
             /\ Return("set_entity_debugging_info", args, <<>>)
             /\ UNCHANGED <<_entities, _components_active,
                            _components_inactive, _named_entities,
                            _next_entity_id, history>>

\* Engine::remove_entity.
remove_entity(ent) ==
    LET id == entity(ent)
        args == <<ent>>
    IN  IF Throws(id) THEN Raise("remove_entity", args, id)
        ELSE /\ _entities' = MapErase(_entities, id[2])
             /\ _components_active' =
                    [c \in Components |-> RemoveIf(comp_vec(c, TRUE), id[2])]
             /\ _components_inactive' =
                    [c \in Components |-> RemoveIf(comp_vec(c, FALSE), id[2])]
             /\ _named_entities' = EraseNamesOf(_named_entities, id[2])
             /\ _debugging_info' = MapErase(_debugging_info, id[2])
             /\ Return("remove_entity", args, <<>>)
             /\ removed' = removed \cup {id[2]}
             /\ UNCHANGED <<_next_entity_id, issued>>

\* Engine::add_component<C>.
add_component(C, ent, c) ==
    LET id == entity(ent)
        args == <<ent, C, c>>
    IN  IF Throws(id) THEN Raise("add_component", args, id)
        ELSE IF id[2] \notin DOMAIN _entities
        THEN Raise("add_component", args, OutOfRange)
        ELSE LET active == _entities[id[2]]
                 vec == AddToVec(comp_vec(C, active), id[2], c)
             IN  IF Throws(vec) THEN Raise("add_component", args, vec)
                 ELSE /\ SetCompVec(C, active, vec[2])
                      /\ Return("add_component", args, c)
                      /\ UNCHANGED <<_entities, _named_entities,
                                     _debugging_info, _next_entity_id,
                                     history>>

\* Engine::remove_component<C>.
remove_component(C, ent) ==
    LET id == entity(ent)
        args == <<ent, C>>
    IN  IF Throws(id) THEN Raise("remove_component", args, id)
        ELSE IF id[2] \notin DOMAIN _entities
        THEN Raise("remove_component", args, OutOfRange)
        ELSE LET active == _entities[id[2]]
                 vec == RemoveFromVec(comp_vec(C, active), id[2])
             IN  IF Throws(vec) THEN Raise("remove_component", args, vec)
                 ELSE /\ SetCompVec(C, active, vec[2])
                      /\ Return("remove_component", args, <<>>)
                      /\ UNCHANGED <<_entities, _named_entities,
                                     _debugging_info, _next_entity_id,
                                     history>>

\* An assignment through the reference that component<C>(ent) returns:
\* e.component<C>(ent) = c.
write_component(C, ent, c) ==
    LET id == entity(ent)
        args == <<ent, C, c>>
    IN  IF Throws(id) THEN Raise("component", args, id)
        ELSE IF id[2] \notin DOMAIN _entities
        THEN Raise("component", args, OutOfRange)
        ELSE LET active == _entities[id[2]]
                 vec == comp_vec(C, active)
                 it == FindInVec(vec, id[2])
             IN  IF it = 0 THEN Raise("component", args, ECSError)
                 ELSE /\ SetCompVec(C, active,
                             [vec EXCEPT ![it].second = c])
                      /\ Return("component", args, c)
                      /\ UNCHANGED <<_entities, _named_entities,
                                     _debugging_info, _next_entity_id,
                                     history>>

\* ---------------------------------------------------------------- Next

\* One call of the host program, counted against the explored run length.
Step(A) ==
    ncalls < MaxCalls /\ ncalls' = ncalls + 1 /\ A /\ UNCHANGED rest

AddEntity == \E name \in OptionalName : Step(add_entity(name))

SetEntityActive ==
    \E ent \in EntityOrName, active \in BOOLEAN :
        Step(set_entity_active(ent, active))

SetEntityDebuggingInfo ==
    \E ent \in EntityOrName, text \in Texts :
        Step(set_entity_debugging_info(ent, text))

RemoveEntity == \E ent \in EntityOrName : Step(remove_entity(ent))

AddComponent ==
    \E C \in Components, ent \in EntityOrName, c \in Values :
        Step(add_component(C, ent, c))

RemoveComponent ==
    \E C \in Components, ent \in EntityOrName :
        Step(remove_component(C, ent))

WriteComponent ==
    \E C \in Components, ent \in EntityOrName, c \in Values :
        Step(write_component(C, ent, c))

Next ==
    \/ AddEntity
    \/ SetEntityActive
    \/ SetEntityDebuggingInfo
    \/ RemoveEntity
    \/ AddComponent
    \/ RemoveComponent
    \/ WriteComponent

\* A new engine, with everything else of the program at rest.
EngineInit == Init /\ RestInit

Spec == EngineInit /\ [][Next]_<<vars, rest>>

\* -------------------------------------------------------------- claims

\* The last call was op and it returned.
Returned(op) == call.op = op /\ ~Throws(call.res)

\* vec is strictly ascending by entity id.
StrictlySorted(vec) ==
    \A i, j \in 1..Len(vec) : i < j => vec[i].first < vec[j].first

\* The positions of vec keyed by entity id.
Keyed(vec, id) == {i \in 1..Len(vec) : vec[i].first = id}

\* C1: after any sequence of calls, each per-component-type vector, the
\* active one and the inactive one, is strictly ascending by entity id (so
\* no vector holds two pairs with the same id).
C1_ListsSortedById ==
    \A C \in Components :
        /\ StrictlySorted(_components_active[C])
        /\ StrictlySorted(_components_inactive[C])

\* A component was just added in front of the pair of an entity with a
\* higher id.
C1_Witness ==
    /\ Returned("add_component")
    /\ \E active \in BOOLEAN :
           LET vec == comp_vec(call.args[2], active)
           IN  /\ Len(vec) >= 2
               /\ entity(call.args[1]) = Ok(vec[1].first)
               /\ vec[1].second = call.args[3]

\* C2: add_component<C>(ent, c) on an entity for which has_component<C> is
\* true throws ECSError, the value read by component<C>(ent) stays what it
\* was and no vector changes (nor anything else of the store).
C2_AddExistingRaises ==
    [][\A C \in Components, ent \in EntityOrName, c \in Values :
          ( /\ call'.op = "add_component"
            /\ call'.args = <<ent, C, c>>
            /\ has_component(C, ent) = Ok(TRUE) )
          => /\ call'.res = ECSError
             /\ component(C, ent)' = component(C, ent)
             /\ Len(_components_active[C])' = Len(_components_active[C])
             /\ Len(_components_inactive[C])' = Len(_components_inactive[C])
             /\ UNCHANGED store]_vars

\* add_component just threw on an entity that holds the component with a
\* value other than the one offered.
C2_Witness ==
    /\ call.op = "add_component"
    /\ call.res = ECSError
    /\ has_component(call.args[2], call.args[1]) = Ok(TRUE)
    /\ component(call.args[2], call.args[1]) # Ok(call.args[3])

\* C3: remove_component<C>(ent) on a registered entity for which
\* has_component<C> is false throws ECSError and changes nothing of the
\* store; a remove_component<C>(ent) that follows a successful one throws.
C3_RemoveAbsentRaises ==
    [][\A C \in Components, ent \in EntityOrName :
          (call'.op = "remove_component" /\ call'.args = <<ent, C>>)
          => /\ has_component(C, ent) = Ok(FALSE)
                    => (call'.res = ECSError /\ UNCHANGED store)
             /\ (Returned("remove_component") /\ call.args = call'.args)
                    => call'.res = ECSError]_vars

\* remove_component just threw for a registered entity while an active
\* vector holds pairs.
C3_Witness ==
    /\ call.op = "remove_component"
    /\ call.res = ECSError
    /\ ~Throws(entity(call.args[1]))
    /\ \E C \in Components : _components_active[C] # <<>>

\* C4: for each component type C and registered entity e, has_component<C>(e)
\* is true exactly when the last successful add_component/remove_component
\* call on (C, e) was an add_component.  Stated step by step: it is false
\* for a new entity, a successful add_component makes it true, a successful
\* remove_component makes it false, and no other call changes it.
C4_HasComponentFollowsLastCall ==
    [][\A C \in Components, e \in EntityIds :
          LET succeeded ==
                  /\ call'.op \in {"add_component", "remove_component"}
                  /\ ~Throws(call'.res)
                  /\ call'.args[2] = C
                  /\ entity(call'.args[1]) = Ok(e)
          IN  /\ (call'.op = "add_entity" /\ call'.res = Ok(e))
                    => has_component(C, Entity(e))' = Ok(FALSE)
              /\ succeeded
                    => has_component(C, Entity(e))'
                           = Ok(call'.op = "add_component")
              /\ (~succeeded /\ e \in DOMAIN _entities
                             /\ e \in DOMAIN _entities')
                    => has_component(C, Entity(e))'
                           = has_component(C, Entity(e))]_vars

\* C5: right after a successful add_component<C>(ent, c), component<C>(ent)
\* returns c; right after c is assigned through the reference that
\* component<C>(ent) returns, component<C>(ent) returns c and what
\* component_ptr reads for every other entity is as before.
C5_RoundTrip ==
    [][\A C \in Components, ent \in EntityOrName, c \in Values :
          /\ ( /\ call'.op = "add_component"
               /\ call'.args = <<ent, C, c>>
               /\ ~Throws(call'.res) )
             => component(C, ent)' = Ok(c)
          /\ ( /\ call'.op = "component"
               /\ call'.args = <<ent, C, c>>
               /\ ~Throws(call'.res) )
             => /\ component(C, ent)' = Ok(c)
                /\ \A e \in DOMAIN _entities, D \in Components :
                       entity(ent) # Ok(e)
                       => component_ptr(D, Entity(e))'
                              = component_ptr(D, Entity(e))]_vars

\* A value was just assigned through the reference while another entity
\* holds a different value of the same component type.
C5_Witness ==
    /\ Returned("component")
    /\ component(call.args[2], call.args[1]) = Ok(call.args[3])
    /\ \E e \in DOMAIN _entities :
           /\ entity(call.args[1]) # Ok(e)
           /\ ~Throws(component(call.args[2], Entity(e)))
           /\ component(call.args[2], Entity(e)) # Ok(call.args[3])

\* The calls that take a component type and an entity.
ComponentOps == {"add_component", "remove_component", "component"}

\* C6: once remove_entity removed e, e is never registered again, no name
\* resolves to e, has_component, component and component_ptr throw for e
\* and every component type, an add_component, remove_component or
\* component call on e throws, and no vector holds a pair keyed by e, so
\* nothing stored for e before its removal can be returned.
C6_RemovedEntityUnreachable ==
    \A e \in removed :
        /\ e \notin DOMAIN _entities
        /\ \A n \in DOMAIN _named_entities : _named_entities[n] # e
        /\ \A C \in Components :
               /\ Throws(has_component(C, Entity(e)))
               /\ Throws(component(C, Entity(e)))
               /\ Throws(component_ptr(C, Entity(e)))
               /\ Keyed(_components_active[C], e) = {}
               /\ Keyed(_components_inactive[C], e) = {}
        /\ (call.op \in ComponentOps /\ call.args[1] = Entity(e))
               => Throws(call.res)

\* add_component was just called on a removed entity, after a newer entity
\* was created.
C6_Witness ==
    /\ call.op = "add_component"
    /\ call.args[1][1] = "Entity"
    /\ call.args[1][2] \in removed
    /\ \E e \in DOMAIN _entities : e > call.args[1][2]

\* C7: the ids add_entity returns are 0, 1, 2, ... in call order (unique,
\* strictly increasing, growing by 1), the registered entities are exactly
\* the returned ids that were not removed, so an id is not handed out again
\* after its entity is removed.
C7_EntityIdsIncrease ==
    /\ \A i \in 1..Len(issued) : issued[i] = i - 1
    /\ call.op = "add_entity" => call.res = Ok(issued[Len(issued)])
    /\ DOMAIN _entities = {issued[i] : i \in 1..Len(issued)} \ removed

\* add_entity just returned an id after an earlier entity was removed.
C7_Witness ==
    /\ Returned("add_entity")
    /\ removed # {}
    /\ Len(issued) >= 2

\* C8: the active and the inactive vector of a component type together
\* hold at most one pair per entity.
C8_OneValuePerTypeAndEntity ==
    \A C \in Components, e \in EntityIds :
        Cardinality(Keyed(_components_active[C], e))
            + Cardinality(Keyed(_components_inactive[C], e)) <= 1

\* ent names a registered entity whose vector of type C (the one selected
\* by its active flag) holds no pair keyed by it.
Lacks(C, ent) ==
    /\ ~Throws(entity(ent))
    /\ Keyed(comp_vec(C, _entities[entity(ent)[2]]), entity(ent)[2]) = {}

\* The three reads of a component that is not there.
ReadsAbsent(C, ent) ==
    /\ has_component(C, ent) = Ok(FALSE)
    /\ component_ptr(C, ent) = Ok(<<>>)
    /\ component(C, ent) = ECSError

\* C9: for a registered entity that holds no component of type C,
\* has_component<C> returns false, component_ptr<C> returns nullptr and
\* component<C> throws ECSError; the same right after a successful
\* remove_component<C>.
C9_AbsentComponentReads ==
    /\ \A C \in Components, ent \in EntityOrName :
           Lacks(C, ent) => ReadsAbsent(C, ent)
    /\ Returned("remove_component")
           => ReadsAbsent(call.args[2], call.args[1])

\* A component was just removed from an entity while an entity with a
\* higher id keeps its component of that type.
C9_Witness ==
    /\ Returned("remove_component")
    /\ \E e \in DOMAIN _entities :
           /\ Ok(e - 1) = entity(call.args[1])
           /\ ~Throws(component(call.args[2], Entity(e)))

\* ent is an id that is not registered or a name bound to no entity.
Unregistered(ent) ==
    IF ent[1] = "string"
    THEN ent[2] \notin DOMAIN _named_entities
    ELSE ent[2] \notin DOMAIN _entities

\* The calls that take an entity.
EntityOps ==
    ComponentOps \cup
        {"set_entity_active", "set_entity_debugging_info", "remove_entity"}

\* C10: a call of an entity operation with an unregistered id or an unbound
\* name throws and leaves the whole store as it was; for such an argument
\* is_entity_active, entity_debugging_info, has_component, component and
\* component_ptr throw; a remove_entity repeated after a successful one
\* throws.
C10_UnknownEntityRaises ==
    /\ [](\A ent \in EntityOrName :
              Unregistered(ent)
              => /\ Throws(is_entity_active(ent))
                 /\ Throws(entity_debugging_info(ent))
                 /\ \A C \in Components :
                        /\ Throws(has_component(C, ent))
                        /\ Throws(component(C, ent))
                        /\ Throws(component_ptr(C, ent)))
    /\ [][
       /\ (call'.op \in EntityOps /\ Unregistered(call'.args[1]))
              => (Throws(call'.res) /\ UNCHANGED store)
       /\ ( /\ Returned("remove_entity")
            /\ call'.op = "remove_entity"
            /\ call'.args = call.args )
              => Throws(call'.res)
      ]_vars

\* remove_entity was just called by id on an entity already removed.
C10_Witness ==
    /\ call.op = "remove_entity"
    /\ Throws(call.res)
    /\ call.args[1][1] = "Entity"
    /\ call.args[1][2] \in removed

\* C11: number_of_entities() is 0 on a new engine, a successful add_entity
\* raises it by one, a successful remove_entity lowers it by one and no
\* other call (a component operation, set_entity_active,
\* set_entity_debugging_info, a call that throws) changes it; so it always
\* is the number of successful add_entity calls minus the number of
\* successful remove_entity calls.
C11_CountIsAddsMinusRemoves ==
    [][/\ ncalls = 0 => number_of_entities = 0
       /\ number_of_entities' =
              number_of_entities
                  + (IF Returned("add_entity")' THEN 1
                     ELSE IF Returned("remove_entity")' THEN -1
                     ELSE 0)
       /\ number_of_entities' = Len(issued') - Cardinality(removed')]_vars

\* Of two entities one was just removed, and a component vector still holds
\* a pair (of the entity that remains).
C11_Witness ==
    /\ Returned("remove_entity")
    /\ number_of_entities = 1
    /\ Cardinality(removed) = 1
    /\ \E C \in Components : Len(_components_active[C]) = 1

\* C12: an entity is active right after add_entity returned it; right after
\* a successful set_entity_active(ent, b), is_entity_active reads b for the
\* entity ent resolves to; no other call, and no set_entity_active on a
\* different entity, changes what is_entity_active reads for an entity that
\* stays registered.
C12_ActiveFlagFollowsLastSet ==
    [][\A e \in EntityIds :
          LET set == /\ Returned("set_entity_active")'
                     /\ entity(call'.args[1]) = Ok(e)
          IN  /\ (call'.op = "add_entity" /\ call'.res = Ok(e))
                    => is_entity_active(Entity(e))' = Ok(TRUE)
              /\ set => is_entity_active(Entity(e))' = Ok(call'.args[2])
              /\ (~set /\ e \in DOMAIN _entities /\ e \in DOMAIN _entities')
                    => is_entity_active(Entity(e))'
                           = is_entity_active(Entity(e))]_vars

\* An entity was just made inactive while another entity is active.
C12_Witness ==
    /\ Returned("set_entity_active")
    /\ call.args[2] = FALSE
    /\ is_entity_active(call.args[1]) = Ok(FALSE)
    /\ \E e \in DOMAIN _entities :
           /\ entity(call.args[1]) # Ok(e)
           /\ is_entity_active(Entity(e)) = Ok(TRUE)

\* The five reads return the same for a as for b.
SameReads(a, b) ==
    /\ is_entity_active(a) = is_entity_active(b)
    /\ entity_debugging_info(a) = entity_debugging_info(b)
    /\ \A C \in Components :
           /\ has_component(C, a) = has_component(C, b)
           /\ component(C, a) = component(C, b)
           /\ component_ptr(C, a) = component_ptr(C, b)

\* C13: a name given to add_entity resolves to the id add_entity returned;
\* for a name bound to id, every read returns the same for the name as for
\* Entity(id); and a call that passes the name throws exactly when the call
\* on Entity(id) would, and has its effect on the entity id.
C13_NameAddressesSameEntity ==
    /\ [](\A n \in DOMAIN _named_entities :
              /\ entity(Name(n)) = entity(Entity(_named_entities[n]))
              /\ SameReads(Name(n), Entity(_named_entities[n])))
    /\ [][
       /\ \A n \in Names :
              (call'.op = "add_entity" /\ call'.args = <<<<n>>>>)
              => Ok(call'.res[2]) = entity(Name(n))'
       /\ \A n \in DOMAIN _named_entities, e \in EntityIds :
              LET id == Entity(e)
                  op == call'.op
                  thrown == Throws(call'.res)
              IN  ( /\ _named_entities[n] = e
                    /\ op \in EntityOps
                    /\ call'.args[1] = Name(n) )
                  => /\ op = "set_entity_active"
                            => /\ ~thrown
                               /\ \A b \in BOOLEAN :
                                      call'.args[2] = b
                                      => is_entity_active(id)' = Ok(b)
                     /\ op = "set_entity_debugging_info"
                            => /\ ~thrown
                               /\ \A text \in Texts :
                                      call'.args[2] = text
                                      => entity_debugging_info(id)'
                                             = Ok(<<text>>)
                     /\ op = "remove_entity"
                            => (~thrown /\ Unregistered(id)')
                     /\ \A C \in Components, c \in Values :
                            (op \in ComponentOps /\ call'.args[2] = C)
                            => /\ thrown <=>
                                      has_component(C, id)
                                          = Ok(op = "add_component")
                               /\ (op = "remove_component" /\ ~thrown)
                                      => has_component(C, id)' = Ok(FALSE)
                               /\ ( /\ op # "remove_component"
                                    /\ ~thrown
                                    /\ call'.args[3] = c )
                                      => component(C, id)' = Ok(c)
      ]_vars

\* A component was just added through the name of the second entity, while
\* the first entity is registered.
C13_Witness ==
    /\ Returned("add_component")
    /\ call.args[1] \in {Name(n) : n \in Names}
    /\ entity(call.args[1]) = Ok(1)
    /\ component(call.args[2], Entity(1)) = Ok(call.args[3])
    /\ 0 \in DOMAIN _entities

MaxOldCalls == 6
MaxOldEntities == 2

\* The component list of the engine instance, Engine<..., X, Y>;
\* component_id<C>() is the index of C in it.
ComponentTuple == <<"X", "Y">>
OldComponents == {ComponentTuple[i] : i \in 1..Len(ComponentTuple)}
component_id(C) ==
    CHOOSE i \in 0..(Len(ComponentTuple) - 1) : ComponentTuple[i + 1] = C

\* sizeof(C): X is one byte wide, Y two.
sizeof(C) == IF C = "X" THEN 1 ELSE 2

\* The bytes of the one value of each type the calls pass.
OldValue(C) == IF C = "X" THEN <<42>> ELSE <<42, 43>>

\* With these components entity_size_t is int8_t and component_id_t and
\* component_size_t are uint8_t, so sizeof(entity_size_t) is 1 and
\* sizeof(Component) is 2.
SizeofEntitySize == 1
SizeofComponent == 2
EntitySizeMax == 127
INVALIDATED_COMPONENT == 255

\* numeric_limits<size_t>::max(), kept as the -1 it is congruent to, so that
\* `*it += total_sz` wraps around as size_t arithmetic does.
INVALIDATED_ENTITY == -1

\* The outcome of a call that ran into undefined behaviour (an access
\* outside _ary or _entities) or into a loop that does not end.
Undefined == <<"undefined">>

\* A byte read as int8_t, and an int8_t stored as a byte.
Int8(b) == IF b >= 128 THEN b - 256 ELSE b
ToByte(n) == n % 256
Abs(n) == IF n < 0 THEN -n ELSE n

\* _ary[i] (i counts from 0) and whether i is inside _ary.
Inside(ary, i) == i >= 0 /\ i < Len(ary)
At(ary, i) == ary[i + 1]

\* memcpy(&ary[pos], bytes, Len(bytes)).
CopyBytes(ary, bytes, pos) ==
    [i \in 1..Len(ary) |->
        IF i - 1 >= pos /\ i - 1 < pos + Len(bytes)
        THEN bytes[i - pos] ELSE ary[i]]

\* ary.insert(begin(ary) + pos, n, 0).
InsertZeros(ary, pos, n) ==
    SubSeq(ary, 1, pos) \o [i \in 1..n |-> 0] \o SubSeq(ary, pos + 1, Len(ary))

\* The loop of for_each_component_in_entity from p up to end: the Component
\* headers handed to f, in order.  A header that lies outside _ary ends the
\* list with an item marked ub.
RECURSIVE ComponentWalk(_, _, _, _)
ComponentWalk(ary, p, end, skip_invalid) ==
    IF p >= end THEN <<>>
    ELSE IF ~Inside(ary, p + 1)
    THEN <<[offset |-> p, sz |-> 0, id |-> 0, ub |-> TRUE]>>
    ELSE LET sz == At(ary, p)
             id == At(ary, p + 1)
             tail == ComponentWalk(ary, p + sz + SizeofComponent, end,
                                   skip_invalid)
         IN  IF skip_invalid /\ id = INVALIDATED_COMPONENT THEN tail
             ELSE <<[offset |-> p, sz |-> sz, id |-> id, ub |-> FALSE]>>
                      \o tail

\* RawData::for_each_component_in_entity: the headers visited for the entity
\* record at entity_ptr, or the exception.
for_each_component_in_entity(ary, entity_ptr, skip_invalid) ==
    IF ~Inside(ary, entity_ptr) THEN Undefined
    ELSE LET entity_sz == Int8(At(ary, entity_ptr))
         IN  IF entity_sz < 0 THEN ECSError
             ELSE Ok(ComponentWalk(ary, entity_ptr + SizeofEntitySize,
                                   entity_ptr + entity_sz, skip_invalid))

\* The first visited header for which f returns true (f being "the id is
\* id"), as the callers' lambdas search: 0 if there is none, and the item
\* marked ub if the walk leaves _ary before one is found.
FirstWithId(items, id) ==
    LET hits == {i \in 1..Len(items) : items[i].ub \/ items[i].id = id}
    IN  IF hits = {} THEN 0
        ELSE CHOOSE i \in hits : \A j \in hits : i <= j

\* The loop of RawData::for_each_entity from p on: the (entity, entity_ptr)
\* pairs handed to f.  A record of size 0 makes the loop spin on it: the
\* list then ends with an item marked ub.
RECURSIVE EntityWalk(_, _, _, _)
EntityWalk(ary, p, ent, skip_invalid) ==
    IF p >= Len(ary) THEN <<>>
    ELSE LET entity_sz == Int8(At(ary, p))
             item == [entity |-> ent, entity_ptr |-> p, ub |-> entity_sz = 0]
         IN  IF entity_sz = 0 THEN <<item>>
             ELSE LET tail == EntityWalk(ary, p + Abs(entity_sz), ent + 1,
                                         skip_invalid)
                  IN  IF skip_invalid /\ entity_sz < 0 THEN tail
                      ELSE <<item>> \o tail

\* RawData::for_each_entity.
for_each_entity(ary, skip_invalid) == EntityWalk(ary, 0, 0, skip_invalid)

\* RawData::add_entity: the new RawData; the id returned is the last index
\* of its _entities.
RawData_add_entity(rd) ==
    [_ary |-> Append(rd._ary, SizeofEntitySize),
     _entities |-> Append(rd._entities, Len(rd._ary))]

\* RawData::entity_ptr, as an offset into _ary.  The check lets
\* entity = _entities.size() through to _entities[entity].
entity_ptr(rd, ent) ==
    IF ent > Len(rd._entities) THEN ECSError
    ELSE IF ent = Len(rd._entities) THEN Undefined
    ELSE IF rd._entities[ent + 1] = INVALIDATED_ENTITY THEN ECSError
    ELSE Ok(rd._entities[ent + 1])

\* RawData::invalidate_entity: fills the record's body with 0xFF, negates
\* its size and drops its offset.
invalidate_entity(rd, ent) ==
    LET idx == rd._entities[ent + 1]
        entity_sz == IF Inside(rd._ary, idx) THEN Int8(At(rd._ary, idx)) ELSE 0
    IN  IF \/ ~Inside(rd._ary, idx)
           \/ entity_sz < SizeofEntitySize
           \/ idx + entity_sz > Len(rd._ary)
        THEN Undefined
        ELSE Ok([_ary |->
                    [i \in 1..Len(rd._ary) |->
                        IF i - 1 = idx THEN ToByte(-entity_sz)
                        ELSE IF i - 1 > idx /\ i - 1 < idx + entity_sz
                        THEN 255
                        ELSE rd._ary[i]],
                 _entities |->
                    [rd._entities EXCEPT ![ent + 1] = INVALIDATED_ENTITY]])

\* The test _find_space_for_component makes on an invalidated slot before it
\* reuses it, with the new component taking total_sz bytes in all.
SlotFits(component_sz, entity_sz, total_sz) == component_sz <= entity_sz

\* RawData::_find_space_for_component: the new RawData and the offset found.
\* An invalidated slot that passes SlotFits is reused; otherwise total_sz
\* bytes are inserted at the end of the entity's record, the offsets of all
\* later entities are raised by total_sz and the record's size is adjusted.
find_space_for_component(rd, ent, total_sz) ==
    IF ent >= Len(rd._entities) THEN ECSError
    ELSE IF rd._entities[ent + 1] = INVALIDATED_ENTITY THEN ECSError
    ELSE
    LET idx == rd._entities[ent + 1]
        walk == for_each_component_in_entity(rd._ary, idx, FALSE)
    IN  IF walk[1] # "ok" THEN walk
        ELSE
        LET entity_sz == Int8(At(rd._ary, idx))
            items == walk[2]
            hits == {i \in 1..Len(items) :
                        \/ items[i].ub
                        \/ /\ items[i].id = INVALIDATED_COMPONENT
                           /\ SlotFits(items[i].sz, entity_sz, total_sz)}
            hit == CHOOSE i \in hits : \A j \in hits : i <= j
        IN  IF hits # {}
            THEN IF items[hit].ub THEN Undefined
                 ELSE Ok([rd |-> rd, idx |-> items[hit].offset])
            ELSE IF entity_sz + total_sz > EntitySizeMax THEN ECSError
            ELSE IF idx + entity_sz > Len(rd._ary) THEN Undefined
            ELSE Ok([rd |->
                        [_ary |->
                            [InsertZeros(rd._ary, idx + entity_sz, total_sz)
                                EXCEPT ![idx + 1] = entity_sz + total_sz],
                         _entities |->
                            [i \in 1..Len(rd._entities) |->
                                IF i > ent + 1
                                THEN rd._entities[i] + total_sz
                                ELSE rd._entities[i]]],
                     idx |-> idx + entity_sz])

\* RawData::add_empty_component followed by the construction of the value in
\* the space it returns (the placement new of Engine::add_component): the
\* Component header {sz, id} is written at the offset found, the bytes of
\* the value right after it.
add_empty_component(rd, ent, sz, id, bytes) ==
    LET space == find_space_for_component(rd, ent, SizeofComponent + sz)
    IN  IF space[1] # "ok" THEN space
        ELSE LET idx == space[2].idx
                 ary == space[2].rd._ary
             IN  IF idx + SizeofComponent + sz > Len(ary) THEN Undefined
                 ELSE Ok([_ary |-> CopyBytes(ary, <<sz, id>> \o bytes, idx),
                          _entities |-> space[2].rd._entities])

\* RawData::invalidate_component: marks the first valid component of the
\* entity whose id is id.  The entity's offset is used unchecked.
invalidate_component(rd, ent, id) ==
    IF ent >= Len(rd._entities) THEN Undefined
    ELSE
    LET walk == for_each_component_in_entity(rd._ary, rd._entities[ent + 1],
                                             TRUE)
    IN  IF walk[1] # "ok" THEN walk
        ELSE LET hit == FirstWithId(walk[2], id)
             IN  IF hit = 0 THEN ECSError
                 ELSE IF walk[2][hit].ub THEN Undefined
                 ELSE Ok([rd EXCEPT
                             !._ary[walk[2][hit].offset + 2] =
                                 INVALIDATED_COMPONENT])

\* The bytes compress copies for the valid components items[k..] of one
\* entity: each header followed by its data.
RECURSIVE CopiedComponents(_, _, _)
CopiedComponents(ary, items, k) ==
    IF k > Len(items) THEN <<>>
    ELSE SubSeq(ary, items[k].offset + 1,
                items[k].offset + SizeofComponent + items[k].sz)
             \o CopiedComponents(ary, items, k + 1)

\* Some component of items lies, wholly or in part, outside ary.
ReadsOutside(ary, items) ==
    \E k \in 1..Len(items) :
        \/ items[k].ub
        \/ items[k].offset + SizeofComponent + items[k].sz > Len(ary)

\* The body of RawData::compress for the records[k..] that for_each_entity
\* visits (invalidated ones included): a valid record is copied to the end
\* of newary without its invalidated components, its size is recomputed and
\* _entities[entity] is set to where the copy starts, entity being the
\* count for_each_entity keeps.
RECURSIVE CompressFrom(_, _, _, _, _)
CompressFrom(ary, records, k, newary, entities) ==
    IF k > Len(records)
    THEN Ok([_ary |-> newary, _entities |-> entities])
    ELSE
    LET record == records[k]
        entity_sz == Int8(At(ary, record.entity_ptr))
        walk == for_each_component_in_entity(ary, record.entity_ptr, TRUE)
    IN  IF record.ub THEN Undefined
        ELSE IF entity_sz < 0
        THEN CompressFrom(ary, records, k + 1, newary, entities)
        ELSE IF ReadsOutside(ary, walk[2]) \/ record.entity >= Len(entities)
        THEN Undefined
        ELSE LET copied == CopiedComponents(ary, walk[2], 1)
             IN  CompressFrom(ary, records, k + 1,
                     newary \o <<SizeofEntitySize + Len(copied)>> \o copied,
                     [entities EXCEPT ![record.entity + 1] = Len(newary)])

\* RawData::compress.
compress(rd) ==
    CompressFrom(rd._ary, for_each_entity(rd._ary, FALSE), 1, <<>>,
                 rd._entities)

\* ------------------------------------------------------- ECS::Engine

\* ECS::Engine::component_ptr<C>(size_t): Ok(<<>>) for nullptr, Ok(<<bytes>>)
\* for a pointer to the value.
ECS_component_ptr(C, ent) ==
    LET ptr == entity_ptr(_rd, ent)
        walk == for_each_component_in_entity(_rd._ary, ptr[2], TRUE)
        hit == FirstWithId(walk[2], component_id(C))
    IN  IF ptr[1] # "ok" THEN ptr
        ELSE IF walk[1] # "ok" THEN walk
        ELSE IF hit = 0 THEN Ok(<<>>)
        ELSE IF \/ walk[2][hit].ub
                \/ walk[2][hit].offset + SizeofComponent + sizeof(C)
                       > Len(_rd._ary)
        THEN Undefined
        ELSE Ok(<<SubSeq(_rd._ary,
                         walk[2][hit].offset + SizeofComponent + 1,
                         walk[2][hit].offset + SizeofComponent + sizeof(C))>>)

\* ECS::Engine::has_component<C>(size_t).
ECS_has_component(C, ent) ==
    LET ptr == entity_ptr(_rd, ent)
        walk == for_each_component_in_entity(_rd._ary, ptr[2], TRUE)
        hit == FirstWithId(walk[2], component_id(C))
    IN  IF ptr[1] # "ok" THEN ptr
        ELSE IF walk[1] # "ok" THEN walk
        ELSE IF hit = 0 THEN Ok(FALSE)
        ELSE IF walk[2][hit].ub THEN Undefined
        ELSE Ok(TRUE)

\* for_each_parameter<C> for every C of the list Cs on the entity record at
\* ptr: "call" if every C is found, "skip" if the longjmp is taken,
\* "undefined" if a search leaves _ary.
Parameters(Cs, ptr) ==
    LET walk == for_each_component_in_entity(_rd._ary, ptr, TRUE)
        hit(C) == FirstWithId(walk[2], component_id(C))
    IN  IF walk[1] # "ok" THEN "undefined"
        ELSE IF \E i \in 1..Len(Cs) :
                    hit(Cs[i]) # 0 /\ walk[2][hit(Cs[i])].ub
        THEN "undefined"
        ELSE IF \E i \in 1..Len(Cs) : hit(Cs[i]) = 0 THEN "skip"
        ELSE "call"

\* The entities for which for_each calls user_function, among records[k..].
RECURSIVE Called(_, _, _)
Called(Cs, records, k) ==
    IF k > Len(records) THEN <<>>
    ELSE IF Parameters(Cs, records[k].entity_ptr) = "call"
    THEN <<records[k].entity>> \o Called(Cs, records, k + 1)
    ELSE Called(Cs, records, k + 1)

\* ECS::Engine::for_each<C...>(user_function): the first arguments of the
\* calls of user_function, in call order.
ECS_for_each(Cs) ==
    LET records == for_each_entity(_rd._ary, TRUE)
    IN  IF \E k \in 1..Len(records) :
               \/ records[k].ub
               \/ Parameters(Cs, records[k].entity_ptr) = "undefined"
        THEN Undefined
        ELSE Ok(Called(Cs, records, 1))

\* The record of a call on ECS::Engine whose outcome on RawData is r: the
\* new RawData when it returned, an exception that leaves RawData as it
\* was, or undefined behaviour, after which nothing is known.
OldOutcome(op, args, r, value, owned) ==
    /\ call' = [op |-> op, args |-> args,
                res |-> IF r[1] = "ok" THEN Ok(value) ELSE r]
    /\ _rd' = IF r[1] = "ok" THEN r[2] ELSE _rd
    /\ undefined' = (r = Undefined)
    /\ owns' = IF r[1] = "ok" THEN owned ELSE owns

\* ECS::Engine::add_entity().
ECS_add_entity ==
    /\ Len(_rd._entities) < MaxOldEntities
    /\ OldOutcome("add_entity", <<>>, Ok(RawData_add_entity(_rd)),
                  Len(_rd._entities),
                  MapPut(owns, Len(_rd._entities), {}))

\* ECS::Engine::remove_entity(size_t): runs the destructor of every
\* component, then invalidates the record.  (No entity is given a name, so
\* the loop over the names finds nothing to erase.)
ECS_remove_entity(ent) ==
    LET ptr == entity_ptr(_rd, ent)
        walk == for_each_component_in_entity(_rd._ary, ptr[2], TRUE)
        r == IF ptr[1] # "ok" THEN ptr
             ELSE IF walk[1] # "ok" THEN walk
             ELSE IF \E i \in 1..Len(walk[2]) : walk[2][i].ub THEN Undefined
             ELSE invalidate_entity(_rd, ent)
    IN  OldOutcome("remove_entity", <<ent>>, r, <<>>, MapErase(owns, ent))

\* ECS::Engine::add_component<C>(size_t, C).
ECS_add_component(C, ent) ==
    LET has == ECS_has_component(C, ent)
        r == IF has[1] # "ok" THEN has
             ELSE IF has[2] THEN ECSError
             ELSE add_empty_component(_rd, ent, sizeof(C), component_id(C),
                                      OldValue(C))
    IN  OldOutcome("add_component", <<ent, C>>, r, <<>>,
                   [owns EXCEPT ![ent] = @ \cup {C}])

\* ECS::Engine::remove_component<C>(size_t).
ECS_remove_component(C, ent) ==
    OldOutcome("remove_component", <<ent, C>>,
               invalidate_component(_rd, ent, component_id(C)), <<>>,
               [owns EXCEPT ![ent] = @ \ {C}])

\* ECS::Engine::compress.
ECS_compress == OldOutcome("compress", <<>>, compress(_rd), <<>>, owns)

\* One call on ECS::Engine; the calls pass ids that add_entity returned.  No
\* call follows one that ran into undefined behaviour.
OldStep(A) ==
    /\ ~undefined
    /\ ncalls < MaxOldCalls
    /\ ncalls' = ncalls + 1
    /\ A
    /\ UNCHANGED <<store, history, queue, sched>>

OldIds == 0..(Len(_rd._entities) - 1)

OldAddEntity == OldStep(ECS_add_entity)
OldRemoveEntity == \E ent \in OldIds : OldStep(ECS_remove_entity(ent))
OldAddComponent ==
    \E C \in OldComponents, ent \in OldIds : OldStep(ECS_add_component(C, ent))
OldRemoveComponent ==
    \E C \in OldComponents, ent \in OldIds :
        OldStep(ECS_remove_component(C, ent))
OldCompress == OldStep(ECS_compress)

OldNext ==
    \/ OldAddEntity
    \/ OldRemoveEntity
    \/ OldAddComponent
    \/ OldRemoveComponent
    \/ OldCompress

SpecOld == EngineInit /\ [][OldNext]_<<vars, rest>>

\* ------------------------------------------------- claims: ECS::Engine

\* The lists of component types a query names: every non-empty list of
\* distinct types, so every permutation of every set of types.
TypeLists ==
    {<<C>> : C \in OldComponents}
        \cup {<<C, D>> : <<C, D>> \in
                 {p \in OldComponents \X OldComponents : p[1] # p[2]}}

\* The members of a set of ids, ascending.
RECURSIVE Ascending(_)
Ascending(S) ==
    IF S = {} THEN <<>>
    ELSE LET least == CHOOSE x \in S : \A y \in S : x <= y
         IN  <<least>> \o Ascending(S \ {least})

\* The entities that own every type of the list Cs, by the calls made.
Owners(Cs) ==
    {e \in DOMAIN owns : \A i \in 1..Len(Cs) : Cs[i] \in owns[e]}

\* C15: for every list of component types, whatever its order and whatever
\* the order in which the components were added, for_each calls
\* user_function exactly once for each entity that owns every type of the
\* list (an entity that was not removed, the types added to it and not
\* removed since) and for no other entity.
C15_QueryIsIntersection ==
    ~undefined
    => \A Cs \in TypeLists : ECS_for_each(Cs) = Ok(Ascending(Owners(Cs)))

\* --------------------------------------------- ecs::Engine: for_each

\* The lists of component types a for_each of ecs::Engine names: the empty
\* list and every list of distinct types.
QueryLists ==
    {<<>>} \cup {<<C>> : C \in Components}
        \cup {<<C, D>> : <<C, D>> \in
                 {p \in Components \X Components : p[1] # p[2]}}

\* The sorted-merge intersection of the vectors lists[1..n], one cursor per
\* vector: the cursors below the largest id under a cursor move forward; when
\* all cursors show the same id it is a match and all move on; a cursor at
\* the end of its vector ends the merge.
RECURSIVE Merge(_, _)
Merge(lists, cursor) ==
    IF \E i \in 1..Len(lists) : cursor[i] > Len(lists[i]) THEN <<>>
    ELSE LET id(i) == lists[i][cursor[i]].first
             max == CHOOSE m \in {id(i) : i \in 1..Len(lists)} :
                        \A i \in 1..Len(lists) : id(i) <= m
         IN  IF \A i \in 1..Len(lists) : id(i) = max
             THEN <<max>> \o Merge(lists, [i \in 1..Len(lists) |->
                                              cursor[i] + 1])
             ELSE Merge(lists, [i \in 1..Len(lists) |->
                                   IF id(i) < max THEN cursor[i] + 1
                                   ELSE cursor[i]])

\* The entities of one partition that a for_each over the types Cs visits:
\* with no type, every entity of the partition; otherwise the merge of the
\* vectors comp_vec<C>(active) of the types.
MatchesIn(Cs, active) ==
    IF Cs = <<>>
    THEN Ascending({e \in DOMAIN _entities : _entities[e] = active})
    ELSE Merge([i \in 1..Len(Cs) |-> comp_vec(Cs[i], active)],
               [i \in 1..Len(Cs) |-> 1])

\* Engine::for_each<C...>(user_function, include_inactive): the entities
\* user_function is called with, partition after partition.
for_each(Cs, include_inactive) ==
    IF include_inactive
    THEN MatchesIn(Cs, TRUE) \o MatchesIn(Cs, FALSE)
    ELSE MatchesIn(Cs, TRUE)

\* The members of a sequence.
Range(s) == {s[i] : i \in 1..Len(s)}

\* C16: the entities are partitioned into the active and the inactive ones;
\* a for_each over both partitions with no component type visits every
\* registered entity, an inactive one included, and a for_each restricted to
\* the active partition, with or without component types, visits active
\* entities only.
C16_QueryScopedByPartition ==
    /\ Range(for_each(<<>>, TRUE)) = DOMAIN _entities
    /\ \A Cs \in QueryLists :
           \A e \in Range(for_each(Cs, FALSE)) :
               e \in DOMAIN _entities /\ _entities[e]

\* ------------------------------------------------ ECS::Engine: queue

\* Calls explored on the queue in one run.
MaxQueueCalls == 5

\* using Event = variant<EventTypeA, EventTypeB>, and the events sent.
EventTypes == {"EventTypeA", "EventTypeB"}
Events ==
    {[type |-> "EventTypeA", value |-> [id |-> 12]],
     [type |-> "EventTypeA", value |-> [id |-> 24]],
     [type |-> "EventTypeB", value |-> [abc |-> "Hello"]]}

\* The loop of events<T>() over evs[k..]: the values of the events that
\* hold a T, in the order of evs.
RECURSIVE HoldingAlternative(_, _, _)
HoldingAlternative(evs, T, k) ==
    IF k > Len(evs) THEN <<>>
    ELSE IF evs[k].type = T
    THEN <<evs[k].value>> \o HoldingAlternative(evs, T, k + 1)
    ELSE HoldingAlternative(evs, T, k + 1)

\* ECS::Engine::events<T>() const.
events(T) == HoldingAlternative(_events, T, 1)

\* _events.insert(_events.begin(), ev).
push_front(evs, ev) == <<ev>> \o evs

\* _events.push_back(ev).
push_back(evs, ev) == Append(evs, ev)

\* ECS::Engine::send.
send(ev) ==
    /\ _events' = push_back(_events, ev)
    /\ call' = [op |-> "send", args |-> <<ev>>, res |-> Ok(<<>>)]

\* A call of events<T>(): a const member, it returns the view.
call_events(T) ==
    /\ UNCHANGED _events
    /\ call' = [op |-> "events", args |-> <<T>>, res |-> Ok(events(T))]

\* ECS::Engine::clear_queue.
clear_queue ==
    /\ _events' = <<>>
    /\ call' = [op |-> "clear_queue", args |-> <<>>, res |-> Ok(<<>>)]

\* One call on the queue of ECS::Engine.
QueueStep(A) ==
    /\ ncalls < MaxQueueCalls
    /\ ncalls' = ncalls + 1
    /\ A
    /\ UNCHANGED <<store, history, old, sched>>

Send == \E ev \in Events : QueueStep(send(ev))
ReadEvents == \E T \in EventTypes : QueueStep(call_events(T))
ClearQueue == QueueStep(clear_queue)

QueueNext ==
    \/ Send
    \/ ReadEvents
    \/ ClearQueue

SpecQueue == EngineInit /\ [][QueueNext]_<<vars, rest>>

\* C17: events<T>() is empty on a new queue; a send of an event holding a T
\* appends its value to what events<T>() returns and leaves events<U>() of
\* every other type U as it was, so events<T>() is exactly the queued events
\* of type T in send order; a call of events<T>() returns that view and
\* leaves the queue as it was; after clear_queue events<T>() is empty for
\* every T.
C17_TypedViewInSendOrder ==
    [][/\ ncalls = 0 => \A T \in EventTypes : events(T) = <<>>
       /\ \A ev \in Events :
              (call'.op = "send" /\ call'.args = <<ev>>)
              => \A T \in EventTypes :
                     events(T)' = IF ev.type = T
                                  THEN Append(events(T), ev.value)
                                  ELSE events(T)
       /\ \A T \in EventTypes :
              (call'.op = "events" /\ call'.args = <<T>>)
              => /\ call'.res = Ok(events(T))
                 /\ _events' = _events
       /\ call'.op = "clear_queue"
              => \A T \in EventTypes : events(T)' = <<>>]_<<vars, rest>>

\* events<EventTypeA>() was just read from a queue that holds an EventTypeB
\* between two EventTypeA: it returned the two ids in send order.
C17_Witness ==
    /\ call.op = "events"
    /\ call.args = <<"EventTypeA">>
    /\ Len(call.res[2]) = 2
    /\ call.res[2][1] # call.res[2][2]
    /\ Len(_events) = 3
    /\ _events[2].type = "EventTypeB"

\* ---------------------------------------------------------------------
\* ecs::Engine, systems and events (declared at fastecs.hh 173-197): the
\* scheduler that runs system bodies and the event queue they send to.
\* One controlling thread issues the runs and the joins; in multithreaded
\* mode a concurrent run has a worker of its own.

MaxTicks == 2
MaxSends == 2

SystemNames == {"physics", "render"}

\* The index of a system: names are numbered in the order of first use.
index_of(table, name) ==
    IF name \in DOMAIN table THEN table[name] ELSE Cardinality(DOMAIN table)

register_system(table, name) ==
    [n \in DOMAIN table \cup {name} |-> index_of(table, n)]

\* An entry of the queue: the event and the index of its producer.  The
\* event sent is told apart by the tick and its position in the body.
QueueEntry(producer, t, k) == [producer |-> producer, tick |-> t, k |-> k]

\* The queue once every event is dropped, as clear_event_queue does.
purge_all(q, producer) == <<>>

\* The queue without the events of one producer.
purge(q, producer) == SelectSeq(q, LAMBDA e : e.producer # producer)

Host == [pc |-> "host", body |-> ""]

NewBody(kind) ==
    [kind |-> kind, pc |-> "purge", k |-> 0, epoch |-> tick, local |-> <<>>]

\* A call of run_*: the controlling thread is between two calls, and the
\* host runs each system once per tick.  A body is known by the name of
\* its system.
Issue(name, kind) ==
    /\ main = Host
    /\ tick < MaxTicks
    /\ name \notin ran
    /\ name \notin DOMAIN bodies
    /\ ran' = ran \cup {name}
    /\ system_index' = register_system(system_index, name)
    /\ bodies' = [n \in DOMAIN bodies \cup {name} |->
                     IF n = name THEN NewBody(kind) ELSE bodies[n]]
    /\ UNCHANGED <<threading, _event_queue, queue_lock, tick>>

\* A synchronous run: the controlling thread executes the body itself.
RunHere(name, kind) ==
    /\ Issue(name, kind)
    /\ main' = [pc |-> "run", body |-> name]
    /\ UNCHANGED workers

run_read_only(name) == RunHere(name, "read_only")

run_mutable(name) == RunHere(name, "mutable")

run_concurrent(name) ==
    IF threading = "single"
    THEN run_read_only(name)
    ELSE /\ Issue(name, "concurrent")
         /\ workers' = Append(workers, name)
         /\ UNCHANGED main

\* The thread of a body: the worker spawned for it, or the controlling
\* thread while it is inside that run.
Running(id) ==
    /\ id \in DOMAIN bodies
    /\ bodies[id].pc # "done"
    /\ \/ bodies[id].kind = "concurrent"
       \/ main = [pc |-> "run", body |-> id]

Producer(id) == system_index[id]

\* The lock of the queue, handed out without regard to its holder.
try_lock_unguarded(id) == TRUE

\* The lock of the queue can be taken when nobody holds it.
try_lock(id) == queue_lock = ""

\* What a body does first: the events its system produced earlier go.
purge_own(id) ==
    /\ Running(id)
    /\ bodies[id].pc = "purge"
    /\ try_lock(id)
    /\ _event_queue' = purge(_event_queue, Producer(id))
    /\ bodies' = [bodies EXCEPT ![id].pc = "send"]
    /\ UNCHANGED <<threading, system_index, queue_lock, workers, main,
                   tick, ran>>

\* send_event in single-threaded mode: an unsynchronized append.
send_event(id) ==
    /\ Running(id)
    /\ threading = "single"
    /\ bodies[id].pc = "send"
    /\ bodies[id].k < MaxSends
    /\ _event_queue' = Append(_event_queue,
           QueueEntry(Producer(id), bodies[id].epoch, bodies[id].k + 1))
    /\ bodies' = [bodies EXCEPT ![id].k = @ + 1]
    /\ UNCHANGED <<threading, system_index, queue_lock, workers, main,
                   tick, ran>>

\* send_event in multithreaded mode, first half: the lock is taken and
\* the end of the queue is read.
send_event_lock(id) ==
    /\ Running(id)
    /\ threading = "multi"
    /\ bodies[id].pc = "send"
    /\ bodies[id].k < MaxSends
    /\ try_lock(id)
    /\ queue_lock' = id
    /\ bodies' = [bodies EXCEPT ![id].pc = "append",
                                ![id].local = _event_queue]
    /\ UNCHANGED <<threading, system_index, _event_queue, workers, main,
                   tick, ran>>

\* Second half: the event is written behind what was read and the lock
\* is given back.
send_event_unlock(id) ==
    /\ Running(id)
    /\ bodies[id].pc = "append"
    /\ _event_queue' = Append(bodies[id].local,
           QueueEntry(Producer(id), bodies[id].epoch, bodies[id].k + 1))
    /\ queue_lock' = ""
    /\ bodies' = [bodies EXCEPT ![id].pc = "send", ![id].k = @ + 1,
                                ![id].local = <<>>]
    /\ UNCHANGED <<threading, system_index, workers, main, tick, ran>>

\* The bodies but one.
Without(bs, id) == [n \in DOMAIN bs \ {id} |-> bs[n]]

\* The body returns.  A synchronous run gives the control back; a worker
\* stays, finished, until it is joined.
body_return(id) ==
    /\ Running(id)
    /\ bodies[id].pc = "send"
    /\ IF bodies[id].kind = "concurrent"
       THEN /\ bodies' = [bodies EXCEPT ![id].pc = "done"]
            /\ UNCHANGED main
       ELSE /\ bodies' = Without(bodies, id)
            /\ main' = Host
    /\ UNCHANGED <<threading, system_index, _event_queue, queue_lock,
                   workers, tick, ran>>

\* The workers are joined whatever they are doing.
detached(ws) == TRUE

\* Every worker of the list has finished its body.
joinable(ws) == \A i \in DOMAIN ws : bodies[ws[i]].pc = "done"

\* join() is called: the controlling thread waits.
join ==
    /\ main = Host
    /\ tick < MaxTicks
    /\ main' = [pc |-> "join", body |-> ""]
    /\ UNCHANGED <<threading, system_index, _event_queue, queue_lock,
                   workers, bodies, tick, ran>>

\* join() returns: the finished workers are gone, the next tick begins.
join_return ==
    /\ main.pc = "join"
    /\ joinable(workers)
    /\ workers' = <<>>
    /\ bodies' = [n \in {b \in DOMAIN bodies : bodies[b].pc # "done"} |->
                     bodies[n]]
    /\ main' = Host
    /\ tick' = tick + 1
    /\ ran' = {}
    /\ UNCHANGED <<threading, system_index, _event_queue, queue_lock>>

SchedStep(A) == A /\ UNCHANGED <<vars, old, queue>>

RunReadOnly == \E name \in SystemNames : SchedStep(run_read_only(name))
RunMutable == \E name \in SystemNames : SchedStep(run_mutable(name))
RunConcurrent == \E name \in SystemNames : SchedStep(run_concurrent(name))
PurgeOwn == \E id \in SystemNames : SchedStep(purge_own(id))
SendEvent == \E id \in SystemNames : SchedStep(send_event(id))
SendEventLock == \E id \in SystemNames : SchedStep(send_event_lock(id))
SendEventUnlock == \E id \in SystemNames : SchedStep(send_event_unlock(id))
BodyReturn == \E id \in SystemNames : SchedStep(body_return(id))
Join == SchedStep(join)
JoinReturn == SchedStep(join_return)

SchedNext ==
    \/ RunReadOnly
    \/ RunMutable
    \/ RunConcurrent
    \/ PurgeOwn
    \/ SendEvent
    \/ SendEventLock
    \/ SendEventUnlock
    \/ BodyReturn
    \/ Join
    \/ JoinReturn

\* A new engine in either threading mode.
SchedEngineInit == Init /\ OldInit /\ QueueInit /\ SchedInit

SpecSched == SchedEngineInit /\ [][SchedNext]_<<vars, rest>>

\* The events of one producer, and those of all the others, in queue order.
EventsOf(q, producer) == SelectSeq(q, LAMBDA e : e.producer = producer)
EventsOfOthers(q, producer) == SelectSeq(q, LAMBDA e : e.producer # producer)

\* A body takes its first step: the purge that comes before its sends.
BodyBegins(id) ==
    /\ id \in DOMAIN bodies
    /\ bodies[id].pc = "purge"
    /\ id \in DOMAIN bodies'
    /\ bodies'[id].pc = "send"

\* C18: before the body of a system runs, exactly the events that this
\* system produced are removed from the queue and the events of every other
\* producer stay, in their order; so, with each system run once per tick,
\* the events of one producer in the queue all come from one tick and are
\* no more than one run sends.
C18_OwnEventsPurgedBeforeBody ==
    /\ [](\A i, j \in DOMAIN _event_queue :
             _event_queue[i].producer = _event_queue[j].producer
                 => _event_queue[i].tick = _event_queue[j].tick)
    /\ [](\A n \in DOMAIN system_index :
             Len(EventsOf(_event_queue, system_index[n])) <= MaxSends)
    /\ [][\A id \in SystemNames :
             BodyBegins(id) =>
                 /\ EventsOf(_event_queue', system_index[id]) = <<>>
                 /\ EventsOfOthers(_event_queue', system_index[id])
                        = EventsOfOthers(_event_queue, system_index[id])
                 /\ Len(_event_queue') = Len(_event_queue)
                        - Len(EventsOf(_event_queue, system_index[id]))
         ]_<<vars, rest>>

\* In the second tick a system has purged and sent again, behind the two
\* events that the other system sent in the first tick.
C18_Witness ==
    /\ tick = 1
    /\ Len(_event_queue) = 4
    /\ _event_queue[1] = QueueEntry(1, 0, 1)
    /\ _event_queue[2] = QueueEntry(1, 0, 2)
    /\ _event_queue[3] = QueueEntry(0, 1, 1)
    /\ _event_queue[4] = QueueEntry(0, 1, 2)

\* The synchronous bodies and the workers' bodies that exist.
SynchronousBodies == {id \in DOMAIN bodies : bodies[id].kind # "concurrent"}
ConcurrentBodies == {id \in DOMAIN bodies : bodies[id].kind = "concurrent"}

\* join() returns in this step.
JoinReturns == main.pc = "join" /\ main'.pc = "host"

\* C19: synchronous runs execute in the order issued: a synchronous body
\* exists only while the controlling thread is inside its run, and no run
\* is issued before it has returned.  Every run_concurrent body started
\* since the last join() has finished when join() returns and the worker
\* list is then empty, so a body that runs beside a synchronous run was
\* started after the last join().
C19_RunsOrderedAndJoined ==
    /\ [](IF main.pc = "run"
          THEN SynchronousBodies = {main.body}
          ELSE SynchronousBodies = {})
    /\ [](\A id \in ConcurrentBodies :
             /\ id \in Range(workers)
             /\ bodies[id].epoch = tick)
    /\ [][/\ ~(DOMAIN bodies' \subseteq DOMAIN bodies)
              => SynchronousBodies = {}
          /\ JoinReturns
              => /\ \A id \in Range(workers) : bodies[id].pc = "done"
                 /\ workers' = <<>>
                 /\ bodies' = <<>>
         ]_<<vars, rest>>

\* Two workers of the first tick sent in turns and were joined; the
\* controlling thread is inside a synchronous run issued after that join.
C19_Witness ==
    /\ threading = "multi"
    /\ tick = 1
    /\ main.pc = "run"
    /\ workers = <<>>
    /\ DOMAIN bodies = {main.body}
    /\ Len(_event_queue) = 4
    /\ \A i \in 1 .. 4 : _event_queue[i].tick = 0
    /\ _event_queue[1].producer # _event_queue[2].producer
    /\ _event_queue[2].producer # _event_queue[3].producer

\* The events a body has sent so far, in send order.
SentBy(id) ==
    [j \in 1 .. bodies[id].k |->
        QueueEntry(system_index[id], bodies[id].epoch, j)]

\* C20: in multithreaded mode, under every interleaving of the concurrent
\* bodies' sends the queue holds every event sent by a body exactly once and
\* the events of one sender in its send order, while the bodies run and when
\* join() returns.
C20_ConcurrentSendsAllKept ==
    /\ [](threading = "multi" =>
             \A id \in ConcurrentBodies :
                 bodies[id].pc # "purge" =>
                     EventsOf(_event_queue, system_index[id]) = SentBy(id))
    /\ [][\A id \in SystemNames :
             (threading = "multi" /\ JoinReturns /\ id \in Range(workers))
                 => /\ EventsOf(_event_queue', system_index[id]) = SentBy(id)
                    /\ queue_lock' = ""
         ]_<<vars, rest>>

\* Two workers sent two events each, in turns, and were joined.
C20_Witness ==
    /\ threading = "multi"
    /\ tick = 1
    /\ main = Host
    /\ workers = <<>>
    /\ bodies = <<>>
    /\ _event_queue = <<QueueEntry(0, 0, 1), QueueEntry(1, 0, 1),
                        QueueEntry(0, 0, 2), QueueEntry(1, 0, 2)>>

\* ------------------------------------------ claims: ecs::Engine, frames

\* remove_entity returns in this step, having removed entity e.
RemovesEntity(e) ==
    /\ call'.op = "remove_entity"
    /\ ~Throws(call'.res)
    /\ entity(call'.args[1]) = Ok(e)

\* C21: remove_entity(e) removes every pair keyed by e from every vector,
\* active and inactive, whatever the active flag of e is; in every reachable
\* state each pair of each vector is keyed by a registered entity.
C21_NoOrphanedEntries ==
    /\ [](\A C \in Components, active \in BOOLEAN :
             \A i \in DOMAIN comp_vec(C, active) :
                 comp_vec(C, active)[i].first \in DOMAIN _entities)
    /\ [][\A e \in EntityIds :
             RemovesEntity(e)
             => /\ e \notin DOMAIN _entities'
                /\ \A C \in Components :
                       /\ Keyed(_components_active'[C], e) = {}
                       /\ Keyed(_components_inactive'[C], e) = {}
         ]_vars

\* An entity was just removed while an inactive entity keeps a pair in an
\* active vector.
C21_Witness ==
    /\ Returned("remove_entity")
    /\ \E C \in Components :
           \E i \in DOMAIN _components_active[C] :
               /\ _components_active[C][i].first \in DOMAIN _entities
               /\ ~_entities[_components_active[C][i].first]

\* C22: set_entity_active(e, b) does not change which components e has:
\* for every component type C, has_component<C>(e) and what component<C>(e)
\* returns are the same before and after a call that returned; and a
\* remove_component<C>(e) succeeds whenever a vector of C holds a pair of e,
\* whichever flag e had when the pair was added.
C22_SetActiveKeepsComponents ==
    [][\A C \in Components, ent \in EntityOrName :
          /\ ( /\ call'.op = "set_entity_active"
               /\ call'.args[1] = ent
               /\ ~Throws(call'.res) )
             => /\ has_component(C, ent)' = has_component(C, ent)
                /\ component(C, ent)' = component(C, ent)
          /\ ( /\ call'.op = "remove_component"
               /\ call'.args = <<ent, C>>
               /\ ~Throws(entity(ent))
               /\ \E active \in BOOLEAN :
                      Keyed(comp_vec(C, active), entity(ent)[2]) # {} )
             => ~Throws(call'.res)
      ]_vars

\* The engine driven as in the "entities" test case, with a second name and
\* a second debugging text (the empty one of the test).
AllNames == Names \cup {"other"}
AllTexts == Texts \cup {""}
AllEntityOrName ==
    {Entity(i) : i \in EntityIds} \cup {Name(s) : s \in AllNames}

NamedAddEntity ==
    \E name \in {<<>>} \cup {<<s>> : s \in AllNames} : Step(add_entity(name))

NamedRemoveEntity == \E ent \in AllEntityOrName : Step(remove_entity(ent))

NamedSetDebuggingInfo ==
    \E ent \in AllEntityOrName, text \in AllTexts :
        Step(set_entity_debugging_info(ent, text))

NamedAddComponent ==
    \E C \in Components, ent \in AllEntityOrName :
        Step(add_component(C, ent, 42))

NamesNext ==
    \/ NamedAddEntity
    \/ NamedRemoveEntity
    \/ NamedSetDebuggingInfo
    \/ NamedAddComponent

SpecNames == EngineInit /\ [][NamesNext]_<<vars, rest>>

\* C23: in every reachable state each name of the name table and each key
\* of the debugging-info table refers to a registered entity; a
\* remove_entity(e) that returns deletes every name bound to e and the
\* debugging info of e and leaves the names and the debugging info of every
\* other entity as they were.
C23_NamesAndInfoOfRegistered ==
    /\ [](/\ \A n \in DOMAIN _named_entities :
                 _named_entities[n] \in DOMAIN _entities
          /\ DOMAIN _debugging_info \subseteq DOMAIN _entities)
    /\ [][\A e \in EntityIds :
             RemovesEntity(e)
             => /\ \A n \in AllNames :
                       IF n \in DOMAIN _named_entities
                           /\ _named_entities[n] # e
                       THEN /\ n \in DOMAIN _named_entities'
                            /\ _named_entities'[n] = _named_entities[n]
                       ELSE n \notin DOMAIN _named_entities'
                /\ \A x \in EntityIds :
                       IF x \in DOMAIN _debugging_info /\ x # e
                       THEN /\ x \in DOMAIN _debugging_info'
                            /\ _debugging_info'[x] = _debugging_info[x]
                       ELSE x \notin DOMAIN _debugging_info'
         ]_vars

\* An entity was just removed through its name, which is bound no longer,
\* while another entity keeps its name and its debugging info.
C23_Witness ==
    /\ Returned("remove_entity")
    /\ call.args[1][1] = "string"
    /\ call.args[1][2] \notin DOMAIN _named_entities
    /\ \E n \in DOMAIN _named_entities :
           _named_entities[n] \in DOMAIN _debugging_info

\* C24: add_entity(name) with a name bound to an existing entity returns
\* and binds the name to the new entity: the name then resolves to the new
\* id, the old entity stays registered with its components and no name
\* resolves to it; and a remove_entity of an entity other than the one a
\* name is bound to leaves that name bound as it was.
C24_AddEntityRebindsName ==
    [][\A n \in AllNames :
          /\ ( /\ call'.op = "add_entity"
               /\ call'.args = <<<<n>>>>
               /\ n \in DOMAIN _named_entities )
             => /\ ~Throws(call'.res)
                /\ n \in DOMAIN _named_entities'
                /\ Ok(_named_entities'[n]) = call'.res
                /\ _named_entities'[n] # _named_entities[n]
                /\ _named_entities[n] \in DOMAIN _entities'
                /\ _entities'[_named_entities[n]] = _entities[_named_entities[n]]
                /\ UNCHANGED <<_components_active, _components_inactive>>
                /\ \A k \in DOMAIN _named_entities' :
                       _named_entities'[k] # _named_entities[n]
                /\ \A C \in Components :
                       component_ptr(C, Name(n))' = Ok(<<>>)
          /\ \A e \in EntityIds :
                 ( /\ RemovesEntity(e)
                   /\ n \in DOMAIN _named_entities
                   /\ _named_entities[n] # e )
                 => /\ n \in DOMAIN _named_entities'
                    /\ _named_entities'[n] = _named_entities[n]
      ]_vars

\* add_entity was just called with a name and returned an entity while an
\* older entity that no name resolves to holds a component.
C24_Witness ==
    /\ Returned("add_entity")
    /\ call.args[1] # <<>>
    /\ entity(Name(call.args[1][1])) = call.res
    /\ \E e \in DOMAIN _entities, C \in Components :
           /\ e < call.res[2]
           /\ has_component(C, Entity(e)) = Ok(TRUE)
           /\ \A k \in DOMAIN _named_entities : _named_entities[k] # e

\* The call that returns in this step is op on component type C of entity e.
Succeeds(op, C, e) ==
    /\ call'.op = op
    /\ ~Throws(call'.res)
    /\ call'.args[2] = C
    /\ entity(call'.args[1]) = Ok(e)

\* C25: an add_component<C>(e, v) that returns changes only the (C, e)
\* entry: the presence and the value of the component, as component_ptr
\* reads them (has_component and component answer from it), are as before
\* for every other entity and type C and for every entity and every other
\* type, and the registry, the names, the flags and the debugging info are
\* unchanged.
C25_AddComponentFrame ==
    [][\A C \in Components, e \in EntityIds :
          Succeeds("add_component", C, e)
          => /\ UNCHANGED <<_entities, _named_entities, _debugging_info,
                            _next_entity_id>>
             /\ component_ptr(C, Entity(e))' = Ok(<<call'.args[3]>>)
             /\ \A D \in Components, x \in EntityIds :
                    (D # C \/ x # e)
                    => component_ptr(D, Entity(x))'
                           = component_ptr(D, Entity(x))
      ]_vars

\* A component was just added to an entity that holds a component of the
\* other type, while another entity holds another value of the same type.
C25_Witness ==
    /\ Returned("add_component")
    /\ \E e \in DOMAIN _entities, D \in Components :
           /\ entity(call.args[1]) = Ok(e)
           /\ D # call.args[2]
           /\ has_component(D, Entity(e)) = Ok(TRUE)
           /\ \E x \in DOMAIN _entities :
                  /\ x # e
                  /\ has_component(call.args[2], Entity(x)) = Ok(TRUE)
                  /\ component(call.args[2], Entity(x)) # Ok(call.args[3])

\* The pairs of a vector of type D that are not the (C, e) entry.
OtherPairs(vec, D, C, e) ==
    SelectSeq(vec, LAMBDA p : D # C \/ p.first # e)

MaxFillCalls == 6

FillStep(A) ==
    /\ ncalls < MaxFillCalls
    /\ ncalls' = ncalls + 1
    /\ A
    /\ UNCHANGED rest

FillAddEntity == FillStep(add_entity(<<>>))

FillAddComponent ==
    \E C \in Components, e \in EntityIds, c \in Values :
        FillStep(add_component(C, Entity(e), c))

FillNext == FillAddEntity \/ FillAddComponent

SpecFill == EngineInit /\ [][FillNext]_<<vars, rest>>

\* The orders in which the pairs of a vector can be taken.
Orders(vec) ==
    {f \in [DOMAIN vec -> DOMAIN vec] :
        \A i, j \in DOMAIN vec : i # j => f[i] # f[j]}

\* The vector built by add_component calls made in a given order, from the
\* k-th call on, onto vec.
RECURSIVE AddInOrder(_, _, _, _)
AddInOrder(vec, pairs, order, k) ==
    IF k > Len(pairs) THEN Ok(vec)
    ELSE LET p == pairs[order[k]]
             next == AddToVec(vec, p.first, p.second)
         IN  IF Throws(next) THEN next
             ELSE AddInOrder(next[2], pairs, order, k + 1)

\* The pairs of a vector, as a set.
Pairs(vec) == {vec[i] : i \in DOMAIN vec}

\* C27: add_component calls on distinct active entities commute: each call
\* that returns yields the ascending vector of the pairs added so far, and
\* every order of adding the pairs a vector holds yields that same vector,
\* also an order that fills higher ids before lower ones.
C27_AddComponentCommutes ==
    /\ [](\A C \in Components :
             \A order \in Orders(_components_active[C]) :
                 AddInOrder(<<>>, _components_active[C], order, 1)
                     = Ok(_components_active[C]))
    /\ [][\A C \in Components, e \in EntityIds :
             Succeeds("add_component", C, e)
             => /\ StrictlySorted(_components_active'[C])
                /\ Pairs(_components_active'[C])
                       = Pairs(_components_active[C])
                             \cup {[first |-> e, second |-> call'.args[3]]}
                /\ Len(_components_active'[C])
                       = Len(_components_active[C]) + 1
         ]_vars

\* Three entities hold a component of one type, with different values, the
\* one with the lowest id having been filled last.
C27_Witness ==
    /\ Returned("add_component")
    /\ call.args[1] = Entity(0)
    /\ Len(_components_active[call.args[2]]) = 3
    /\ _components_active[call.args[2]][2].second
           # _components_active[call.args[2]][3].second

\* ------------------------------------------- claims: RawData, compress

\* What RawData holds for entity ent: <<"removed">> if its offset is
\* INVALIDATED_ENTITY (or ent was never added), else the size, id and data of
\* its components that are not invalidated, in the order of the record.
Record(rd, ent) ==
    IF ent >= Len(rd._entities) THEN <<"removed">>
    ELSE IF rd._entities[ent + 1] = INVALIDATED_ENTITY THEN <<"removed">>
    ELSE LET walk == for_each_component_in_entity(rd._ary,
                                                   rd._entities[ent + 1], TRUE)
         IN  IF walk[1] # "ok" THEN walk
             ELSE IF ReadsOutside(rd._ary, walk[2]) THEN Undefined
             ELSE Ok([k \in 1..Len(walk[2]) |->
                         [sz |-> walk[2][k].sz,
                          id |-> walk[2][k].id,
                          data |-> SubSeq(rd._ary,
                                       walk[2][k].offset + SizeofComponent + 1,
                                       walk[2][k].offset + SizeofComponent
                                           + walk[2][k].sz)]])

\* The records of _ary, invalidated ones included, and the components of a
\* record, invalidated ones included.
Records(rd) == for_each_entity(rd._ary, FALSE)
AllComponents(rd, ptr) == for_each_component_in_entity(rd._ary, ptr, FALSE)

\* _ary holds no invalidated entity record and no invalidated component.
Compressed(rd) ==
    \A k \in 1..Len(Records(rd)) :
        LET record == Records(rd)[k]
        IN  /\ ~record.ub
            /\ AllComponents(rd, record.entity_ptr)[1] = "ok"
            /\ \A c \in 1..Len(AllComponents(rd, record.entity_ptr)[2]) :
                   AllComponents(rd, record.entity_ptr)[2][c].id
                       # INVALIDATED_COMPONENT

OldEntityIds == 0..(MaxOldEntities - 1)

\* Every offset of _entities is INVALIDATED_ENTITY or the start of a record
\* of _ary that is not invalidated, no two offsets are the same record, and
\* every record can be read to its end.
Consistent(rd) ==
    /\ \A k \in 1..Len(Records(rd)) :
           /\ ~Records(rd)[k].ub
           /\ Int8(At(rd._ary, Records(rd)[k].entity_ptr)) > 0
                  => /\ AllComponents(rd, Records(rd)[k].entity_ptr)[1] = "ok"
                     /\ ~ReadsOutside(rd._ary,
                            AllComponents(rd, Records(rd)[k].entity_ptr)[2])
    /\ \A e \in 1..Len(rd._entities) :
           rd._entities[e] # INVALIDATED_ENTITY
           => /\ \E k \in 1..Len(Records(rd)) :
                     /\ Records(rd)[k].entity_ptr = rd._entities[e]
                     /\ Int8(At(rd._ary, rd._entities[e])) > 0
              /\ \A f \in 1..Len(rd._entities) :
                     f # e => rd._entities[f] # rd._entities[e]

\* C28: a compress() that returns, called on a RawData whose offsets are
\* consistent with its records, keeps every valid entity under its entity
\* number with exactly its components that are not invalidated, in their
\* order and with their size, id and data, leaves no invalidated entity
\* record and no invalidated component in _ary, and leaves every removed
\* entity marked as removed.
C28_CompressKeepsValidEntities ==
    [][(call'.op = "compress" /\ ~Throws(call'.res) /\ Consistent(_rd))
       => /\ \A ent \in OldEntityIds : Record(_rd', ent) = Record(_rd, ent)
          /\ Len(_rd'._entities) = Len(_rd._entities)
          /\ Compressed(_rd')
      ]_<<vars, rest>>

\* -------------------------------------- claims: RawData, slot reuse

\* The record of entity ent holds an invalidated component slot.
HoldsFreedSlot(rd, ent) ==
    /\ ent < Len(rd._entities)
    /\ rd._entities[ent + 1] # INVALIDATED_ENTITY
    /\ AllComponents(rd, rd._entities[ent + 1])[1] = "ok"
    /\ \E k \in 1..Len(AllComponents(rd, rd._entities[ent + 1])[2]) :
           AllComponents(rd, rd._entities[ent + 1])[2][k].id
               = INVALIDATED_COMPONENT

\* The components of a record other than the one with the given id.
OtherComponents(components, id) ==
    SelectSeq(components, LAMBDA c : c.id # id)

\* C29: an add_component that returns, made on an entity whose record holds
\* an invalidated component slot (in a RawData whose offsets are consistent
\* with its records), leaves the size, id and data of every other component
\* of that entity and of every component of every other entity as they
\* were, whatever the sizes of the freed slot and of the new component, and
\* the entity then holds the new component with its size and data.
C29_SlotReuseKeepsOthers ==
    [][\A C \in OldComponents, ent \in OldEntityIds :
          ( /\ call'.op = "add_component"
            /\ call'.args = <<ent, C>>
            /\ ~Throws(call'.res)
            /\ Consistent(_rd)
            /\ HoldsFreedSlot(_rd, ent) )
          => /\ \A e \in OldEntityIds :
                    e # ent => Record(_rd', e) = Record(_rd, e)
             /\ Record(_rd', ent)[1] = "ok"
             /\ OtherComponents(Record(_rd', ent)[2], component_id(C))
                    = Record(_rd, ent)[2]
             /\ \E k \in 1..Len(Record(_rd', ent)[2]) :
                    Record(_rd', ent)[2][k]
                        = [sz |-> sizeof(C), id |-> component_id(C),
                           data |-> OldValue(C)]
      ]_<<vars, rest>>

====
